---- MODULE Spec2Model ----
(***************************************************************************)
(* Move search of blobwar: the Min-Max engines (strategy/minmax.rs), the   *)
(* Alpha-Beta engines (strategy/alphabeta.rs) and the two anytime drivers  *)
(* that publish the move of each completed depth in a shared slot.         *)
(*                                                                         *)
(* A position is a finite game tree: every node carries the raw value()   *)
(* of its Configuration and the sequence of its children, one per legal   *)
(* Movement, in movements() enumeration order.  A Movement is the index   *)
(* of the child it leads to.                                               *)
(***************************************************************************)
EXTENDS Integers, Sequences, FiniteSets, TLC

VARIABLES
    node,               \* the Configuration handed to the engine / strategy / driver
    depth,              \* the u8 handed over: an engine's depth, or a strategy's field self.0
    maximizing_player,  \* the maximizing_player argument of an engine
    called,             \* the function that was applied ("none" before the call)
    window,             \* the (alpha, beta) arguments of an Alpha-Beta engine call
    result,             \* what the call returned
    driver,             \* which anytime driver runs ("none" outside a driver run)
    pc,                 \* the driver's position in its code
    k,                  \* the driver's loop variable `depth`
    chosen_movement,    \* the move the driver's last search returned, not yet stored
    slot,               \* the shared AtomicMove slot
    published           \* the loop depth of the last store (0: none yet)

vars == <<node, depth, maximizing_player, called, window, result,
          driver, pc, k, chosen_movement, slot, published>>

engine_vars == <<node, depth, maximizing_player, called, window, result>>
driver_vars == <<driver, pc, k, chosen_movement, slot, published>>

---------------------------------------------------------------------------
(* Bounds of the model and constants of the program. *)

MaxNodes == 4          \* positions are the game trees of at most MaxNodes nodes
MaxDepth == 2          \* depth (and self.0) ranges over 0..MaxDepth
MaxDriverNodes == 3    \* the drivers run on the game trees of at most MaxDriverNodes nodes

i8MIN == -128
i8MAX == 127
DepthEnd == 100        \* `for depth in 1..100`

None == 0              \* Option::None; Some(m) is the Movement m, an index >= 1

\* The raw value()s drawn for the nodes.  i8::MIN is left out: `-node.value()`
\* overflows on it (a panic in a debug build, i8::MIN again in a release build).
Values == {-1, 1, i8MAX}

---------------------------------------------------------------------------
(* The game-state capability (crate::configuration). *)

RECURSIVE TreesOfSize(_), ForestsOfSize(_)
TreesOfSize(n) ==
    {[value |-> v, kids |-> f] : v \in Values, f \in ForestsOfSize(n - 1)}

ForestsOfSize(m) ==
    IF m = 0 THEN {<<>>}
    ELSE UNION {{<<t>> \o f : t \in TreesOfSize(j), f \in ForestsOfSize(m - j)} : j \in 1..m}

Trees(max) == UNION {TreesOfSize(n) : n \in 1..max}

Configurations(max) ==
    {[tree |-> t, current_player |-> p, path |-> <<>>] : t \in Trees(max), p \in BOOLEAN}

value(n) == n.tree.value

movements(n) == [m \in 1..Len(n.tree.kids) |-> m]

play(n, m) ==
    [tree |-> n.tree.kids[m], current_player |-> ~n.current_player, path |-> Append(n.path, m)]

neg(v) == ((128 - v) % 256) - 128      \* i8 negation, wrapping: neg(-128) = -128

---------------------------------------------------------------------------
(* Helpers shared by the engines. *)

\* `depth == 0 || node.movements().next().is_none()`
is_base_case(n, d) == d = 0 \/ Len(movements(n)) = 0

\* base_case without the change of sign
base_case_raw(n, mp) == value(n)

\* `if maximizing_player == node.current_player { -node.value() } else { node.value() }`
base_case(n, mp) == IF mp = n.current_player THEN neg(value(n)) ELSE value(n)

\* max_by_key keeping the first of several equally maximum elements
max_by_key_first(s) ==
    s[CHOOSE i \in 1..Len(s) :
        /\ \A j \in 1..Len(s) : s[j].score <= s[i].score
        /\ \A j \in 1..(i - 1) : s[j].score < s[i].score]

\* Iterator::max_by_key: of several equally maximum elements the last is returned.
max_by_key(s) ==
    s[CHOOSE i \in 1..Len(s) :
        /\ \A j \in 1..Len(s) : s[j].score <= s[i].score
        /\ \A j \in (i + 1)..Len(s) : s[j].score < s[i].score]

\* Iterator::min_by_key: of several equally minimum elements the first is returned.
min_by_key(s) ==
    s[CHOOSE i \in 1..Len(s) :
        /\ \A j \in 1..Len(s) : s[j].score >= s[i].score
        /\ \A j \in 1..(i - 1) : s[j].score > s[i].score]

\* rayon's max_by_key / min_by_key reduce the mapped items with these two.
max_key(a, b) == IF a.score > b.score THEN a ELSE b
min_key(a, b) == IF a.score > b.score THEN b ELSE a

\* the closures handed to reduce_with in alpha_beta_par
reduce_max(a, b) == IF a.score > b.score THEN a ELSE b
reduce_min(a, b) == IF a.score < b.score THEN a ELSE b

combine(kind, a, b) ==
    CASE kind = "max_by_key" -> max_key(a, b)
      [] kind = "min_by_key" -> min_key(a, b)
      [] kind = "reduce_max" -> reduce_max(a, b)
      [] kind = "reduce_min" -> reduce_min(a, b)

\* rayon reduces the items of a parallel iterator in their order, grouped as the
\* work happens to be split: every bracketing of s is a possible reduction.
RECURSIVE reduce_with(_, _)
reduce_with(s, kind) ==
    IF Len(s) = 1 THEN {s[1]}
    ELSE UNION {{combine(kind, a, b) :
                    a \in reduce_with(SubSeq(s, 1, j), kind),
                    b \in reduce_with(SubSeq(s, j + 1, Len(s)), kind)} :
                j \in 1..(Len(s) - 1)}

---------------------------------------------------------------------------
(* strategy/minmax.rs *)

\* Everything after the first if/else of minmax_iter is unreachable.
minmax_iter(n, d, mp) ==
    [move |-> None, score |-> base_case(n, mp), visited |-> {n.path}]

RECURSIVE minmax_fonc(_, _, _)
minmax_fonc(n, d, mp) ==
    IF is_base_case(n, d)
    THEN [move |-> None, score |-> base_case(n, mp), visited |-> {n.path}]
    ELSE LET sub == [m \in DOMAIN movements(n) |-> minmax_fonc(play(n, m), d - 1, mp)]
             mapped == [m \in DOMAIN movements(n) |-> [move |-> m, score |-> sub[m].score]]
             best == IF n.current_player = mp THEN max_by_key(mapped) ELSE min_by_key(mapped)
         IN [move |-> best.move, score |-> best.score,
             visited |-> {n.path} \cup UNION {sub[m].visited : m \in DOMAIN sub}]

\* The set of results minmax_par can return, one per way the children's results
\* can be reduced.
RECURSIVE minmax_par(_, _, _)
minmax_par(n, d, mp) ==
    IF is_base_case(n, d)
    THEN {[move |-> None, score |-> base_case(n, mp)]}
    ELSE LET ms == DOMAIN movements(n)
             sub == [m \in ms |-> {r.score : r \in minmax_par(play(n, m), d - 1, mp)}]
             mapped == {[m \in ms |-> [move |-> m, score |-> f[m]]] :
                          f \in {g \in [ms -> UNION {sub[m] : m \in ms}] :
                                    \A m \in ms : g[m] \in sub[m]}}
             kind == IF n.current_player = mp THEN "max_by_key" ELSE "min_by_key"
         IN UNION {reduce_with(s, kind) : s \in mapped}

\* MinMax(self0).compute_next_move(state)
MinMax_compute_next_move(self0, state) ==
    {r.move : r \in minmax_par(state, self0 - 1, state.current_player)}

---------------------------------------------------------------------------
(* strategy/alphabeta.rs *)

\* task reporting the bound it found instead of the child's value
task_stale(local, v, maximizing) ==
    [local |-> IF maximizing
               THEN (IF v > local THEN v ELSE local)
               ELSE (IF v < local THEN v ELSE local),
     reported |-> local]

\* The map_init closures of alpha_beta_par: given the worker's local bound and the
\* child's value, the bound after the task and the value the task reports.
task(local, v, maximizing) ==
    [local |-> IF maximizing
               THEN (IF v > local THEN v ELSE local)
               ELSE (IF v < local THEN v ELSE local),
     reported |-> v]

\* The set of results alpha_beta_par can return.  rayon splits the children into
\* runs of consecutive items; each run starts from a fresh map_init value
\* (i8::MIN, i8::MAX) and handles its items in order, sharing the local bound.
\* par_tasks is the set of sequences of task results for the children i.. .
RECURSIVE alpha_beta_par(_, _, _, _, _), par_tasks(_, _, _, _, _, _, _)
par_tasks(n, d, alpha, beta, mp, i, local) ==
    IF i > Len(movements(n)) THEN {<<>>}
    ELSE LET maximizing == mp = n.current_player
             init == IF maximizing THEN i8MIN ELSE i8MAX
             starts == IF i = 1 THEN {init} ELSE {init, local}
         IN UNION {
              UNION {
                LET t == task(loc, r.score, maximizing)
                IN {<<[move |-> movements(n)[i], score |-> t.reported]>> \o rest :
                       rest \in par_tasks(n, d, alpha, beta, mp, i + 1, t.local)} :
                r \in IF maximizing
                      THEN alpha_beta_par(play(n, movements(n)[i]), d - 1, loc, beta, mp)
                      ELSE alpha_beta_par(play(n, movements(n)[i]), d - 1, alpha, loc, mp)} :
              loc \in starts}

\* (a node past the base case has a child, so unwrap_or never takes its default)
alpha_beta_par(n, d, alpha, beta, mp) ==
    IF is_base_case(n, d)
    THEN {[move |-> None, score |-> base_case(n, mp)]}
    ELSE LET kind == IF mp = n.current_player THEN "reduce_max" ELSE "reduce_min"
         IN UNION {reduce_with(s, kind) : s \in par_tasks(n, d, alpha, beta, mp, 1, 0)}

\* One pass of `for child in movements` of alpha_beta from child i on; st holds the
\* locals alpha, beta, best_child, best_value, and the nodes alpha_beta was invoked
\* on so far, how often `break` was taken, and how many children a break left out.
RECURSIVE alpha_beta(_, _, _, _, _), alpha_beta_for(_, _, _, _, _)
alpha_beta_for(n, d, mp, i, st) ==
    IF i > Len(movements(n)) THEN st
    ELSE LET child == movements(n)[i]
             r == alpha_beta(play(n, child), d - 1, st.alpha, st.beta, mp)
             maximizing == mp = n.current_player
             better == IF maximizing THEN r.score > st.alpha ELSE r.score < st.beta
             st2 == [alpha |-> IF maximizing /\ better THEN r.score ELSE st.alpha,
                     beta |-> IF ~maximizing /\ better THEN r.score ELSE st.beta,
                     best_child |-> IF better THEN child ELSE st.best_child,
                     best_value |-> IF better THEN r.score ELSE st.best_value,
                     visited |-> st.visited \cup r.visited,
                     breaks |-> st.breaks + r.breaks,
                     skipped |-> st.skipped + r.skipped]
         IN IF st2.alpha >= st2.beta
            THEN [st2 EXCEPT !.breaks = @ + 1, !.skipped = @ + (Len(movements(n)) - i)]
            ELSE alpha_beta_for(n, d, mp, i + 1, st2)

\* alpha_beta recursing with depth instead of depth - 1
alpha_beta_deeper(n, d, alpha, beta, mp) ==
    IF is_base_case(n, d)
    THEN [move |-> None, score |-> base_case(n, mp), visited |-> {n.path},
          breaks |-> 0, skipped |-> 0]
    ELSE LET st == alpha_beta_for(n, d + 1, mp, 1,
                     [alpha |-> alpha, beta |-> beta, best_child |-> None,
                      best_value |-> IF mp = n.current_player THEN i8MIN ELSE i8MAX,
                      visited |-> {n.path}, breaks |-> 0, skipped |-> 0])
         IN [move |-> st.best_child, score |-> st.best_value, visited |-> st.visited,
             breaks |-> st.breaks, skipped |-> st.skipped]

\* alpha_beta, with the nodes it was invoked on and its breaks counted
alpha_beta(n, d, alpha, beta, mp) ==
    IF is_base_case(n, d)
    THEN [move |-> None, score |-> base_case(n, mp), visited |-> {n.path},
          breaks |-> 0, skipped |-> 0]
    ELSE LET st == alpha_beta_for(n, d, mp, 1,
                     [alpha |-> alpha, beta |-> beta, best_child |-> None,
                      best_value |-> IF mp = n.current_player THEN i8MIN ELSE i8MAX,
                      visited |-> {n.path}, breaks |-> 0, skipped |-> 0])
         IN [move |-> st.best_child, score |-> st.best_value, visited |-> st.visited,
             breaks |-> st.breaks, skipped |-> st.skipped]

RECURSIVE alpha_beta_fonc(_, _, _, _, _)
alpha_beta_fonc(n, d, alpha, beta, mp) ==
    IF is_base_case(n, d)
    THEN [move |-> None, score |-> base_case(n, mp)]
    ELSE LET mapped == [m \in DOMAIN movements(n) |->
                          [move |-> m,
                           score |-> alpha_beta_fonc(play(n, m), d - 1, alpha, beta, mp).score]]
         IN IF mp = n.current_player THEN max_by_key(mapped) ELSE min_by_key(mapped)

\* AlphaBeta(self0).compute_next_move(state)
AlphaBeta_compute_next_move(self0, state) ==
    {r.move : r \in alpha_beta_par(state, self0 - 1, i8MAX, i8MIN, state.current_player)}

---------------------------------------------------------------------------
(* Calls of the engines and of the two strategies on a drawn position. *)

NoWindow == [alpha |-> 0, beta |-> 0]
RootWindow == [alpha |-> i8MAX, beta |-> i8MIN]    \* what AlphaBeta::compute_next_move passes
FullWindow == [alpha |-> i8MIN, beta |-> i8MAX]
Windows == {RootWindow, FullWindow}

NoResult == [move |-> None, score |-> 0]

Idle ==
    /\ driver = "none" /\ pc = "idle" /\ k = 0
    /\ chosen_movement = None /\ slot = None /\ published = 0

Init ==
    /\ node \in Configurations(MaxNodes)
    /\ depth \in 0..MaxDepth
    /\ maximizing_player \in BOOLEAN
    /\ called = "none" /\ window = NoWindow /\ result = NoResult
    /\ Idle

Returns(f, w, r) ==
    /\ called' = f /\ window' = w /\ result' = r
    /\ UNCHANGED <<node, depth, maximizing_player>>
    /\ UNCHANGED driver_vars

Call_minmax_iter ==
    /\ called = "none"
    /\ Returns("minmax_iter", NoWindow, minmax_iter(node, depth, maximizing_player))

Call_minmax_fonc ==
    /\ called = "none"
    /\ Returns("minmax_fonc", NoWindow, minmax_fonc(node, depth, maximizing_player))

Call_minmax_par ==
    /\ called = "none"
    /\ \E r \in minmax_par(node, depth, maximizing_player) :
          Returns("minmax_par", NoWindow, r)

Call_alpha_beta ==
    /\ called = "none"
    /\ \E w \in Windows :
          Returns("alpha_beta", w,
                  alpha_beta(node, depth, w.alpha, w.beta, maximizing_player))

Call_alpha_beta_fonc ==
    /\ called = "none"
    /\ \E w \in Windows :
          Returns("alpha_beta_fonc", w,
                  alpha_beta_fonc(node, depth, w.alpha, w.beta, maximizing_player))

Call_alpha_beta_par ==
    /\ called = "none"
    /\ \E w \in Windows :
          \E r \in alpha_beta_par(node, depth, w.alpha, w.beta, maximizing_player) :
              Returns("alpha_beta_par", w, r)

\* self.0 - 1 underflows for MinMax(0) and AlphaBeta(0): the strategies are built
\* with self.0 >= 1.
Call_MinMax_compute_next_move ==
    /\ called = "none"
    /\ depth >= 1
    /\ \E m \in MinMax_compute_next_move(depth, node) :
          Returns("MinMax::compute_next_move", NoWindow, [move |-> m])

Call_AlphaBeta_compute_next_move ==
    /\ called = "none"
    /\ depth >= 1
    /\ \E m \in AlphaBeta_compute_next_move(depth, node) :
          Returns("AlphaBeta::compute_next_move", RootWindow, [move |-> m])

Next ==
    \/ Call_minmax_iter
    \/ Call_minmax_fonc
    \/ Call_minmax_par
    \/ Call_alpha_beta
    \/ Call_alpha_beta_fonc
    \/ Call_alpha_beta_par
    \/ Call_MinMax_compute_next_move
    \/ Call_AlphaBeta_compute_next_move

Spec == Init /\ [][Next]_vars

---------------------------------------------------------------------------
(* The anytime drivers min_max_anytime and alpha_beta_anytime, and the      *)
(* supervisor that kills the driver's process at a moment of its choosing.  *)

Drivers == {"min_max_anytime", "alpha_beta_anytime"}

compute_next_move(drv, self0, state) ==
    IF drv = "min_max_anytime"
    THEN MinMax_compute_next_move(self0, state)
    ELSE AlphaBeta_compute_next_move(self0, state)

InitAnytime ==
    /\ node \in Configurations(MaxDriverNodes)
    /\ depth = 0
    /\ maximizing_player = node.current_player
    /\ called = "none" /\ window = NoWindow /\ result = NoResult
    /\ driver \in Drivers
    /\ pc = "connect" /\ k = 0
    /\ chosen_movement = None /\ slot = None /\ published = 0

\* AtomicMove::connect().expect(..): the driver enters its loop, or panics.
Connect ==
    /\ pc = "connect"
    /\ pc' = "search" /\ k' = 1
    /\ UNCHANGED <<driver, chosen_movement, slot, published>>
    /\ UNCHANGED engine_vars

ConnectFails ==
    /\ pc = "connect"
    /\ pc' = "panicked"
    /\ UNCHANGED <<driver, k, chosen_movement, slot, published>>
    /\ UNCHANGED engine_vars

\* Search one depth too deep
Search_next_depth ==
    /\ pc = "search" /\ k < DepthEnd
    /\ \E m \in compute_next_move(driver, k + 1, node) : chosen_movement' = m
    /\ pc' = "store"
    /\ UNCHANGED <<driver, k, slot, published>>
    /\ UNCHANGED engine_vars

\* MinMax(depth).compute_next_move(state) / AlphaBeta(depth).compute_next_move(state)
Search ==
    /\ pc = "search" /\ k < DepthEnd
    /\ \E m \in compute_next_move(driver, k, node) : chosen_movement' = m
    /\ pc' = "store"
    /\ UNCHANGED <<driver, k, slot, published>>
    /\ UNCHANGED engine_vars

\* movement.store(..): one store of the whole Option<Movement>; then the next depth.
Store ==
    /\ pc = "store"
    /\ slot' = chosen_movement
    /\ published' = k
    /\ k' = k + 1
    /\ pc' = "search"
    /\ UNCHANGED <<driver, chosen_movement>>
    /\ UNCHANGED engine_vars

\* the range 1..100 is exhausted: the driver function returns
Return ==
    /\ pc = "search" /\ k = DepthEnd
    /\ pc' = "returned"
    /\ UNCHANGED <<driver, k, chosen_movement, slot, published>>
    /\ UNCHANGED engine_vars

\* the supervisor kills the process; the slot outlives it
Kill ==
    /\ pc \in {"connect", "search", "store"}
    /\ pc' = "killed"
    /\ UNCHANGED <<driver, k, chosen_movement, slot, published>>
    /\ UNCHANGED engine_vars

NextAnytime ==
    \/ Connect
    \/ ConnectFails
    \/ Search
    \/ Store
    \/ Return
    \/ Kill

SpecAnytime == InitAnytime /\ [][NextAnytime]_vars

---------------------------------------------------------------------------
(* Properties. *)

has_moves(n) == Len(movements(n)) > 0

AlphaBetaForms == {"alpha_beta", "alpha_beta_fonc", "alpha_beta_par"}
BaseCaseEngines == {"minmax_fonc", "minmax_par", "alpha_beta", "alpha_beta_fonc", "alpha_beta_par"}
Strategies == {"MinMax::compute_next_move", "AlphaBeta::compute_next_move"}

\* C1: called with the root arguments of AlphaBeta::compute_next_move
\* (alpha = i8::MAX, beta = i8::MIN), each Alpha-Beta form returns the score that
\* minmax_par returns on the same position, depth and maximizing player.
C1_AlphaBetaScoreIsMinMaxScore ==
    (called \in AlphaBetaForms /\ window = RootWindow)
        => \A r \in minmax_par(node, depth, maximizing_player) : result.score = r.score

\* C2: MinMax(n) and AlphaBeta(n), n >= 1, return None only for a position without
\* a legal move, and otherwise Some(m) with m one of movements().
C2_NoneOnlyWithoutLegalMove ==
    (called \in Strategies /\ has_moves(node))
        => \E i \in DOMAIN movements(node) : result.move = movements(node)[i]

\* C3: on a position with a legal move, from the first store until the depth-2
\* search starts the slot holds Some(move).
C3_FirstStoreIsAMove ==
    (published = 1 /\ pc = "search" /\ has_moves(node)) => slot # None

\* C4: the slot holds None until the first store and from then on the result of
\* the search of the last published depth, also after a kill; the slot is written
\* only by the store that follows a completed search, once per depth, depth by depth.
C4_SlotHoldsLastPublishedResult ==
    /\ [](published = 0 => slot = None)
    /\ [](published > 0 => slot \in compute_next_move(driver, published, node))
    /\ [](pc = "store" => chosen_movement \in compute_next_move(driver, k, node))
    /\ [][(slot' # slot \/ published' # published)
            => /\ pc = "store"
               /\ slot' = chosen_movement
               /\ published' = k
               /\ published' = published + 1]_vars

\* C4 witness: the driver is killed between the depth-2 search and its store; the
\* slot still holds the None of depth 1 while the depth-2 move was never stored.
C4_Witness ==
    /\ pc = "killed" /\ published = 1 /\ k = 2
    /\ slot = None /\ chosen_movement # None

\* C5: a driver that is not killed never returns.
C5_DriverNeverReturns == pc # "returned"

\* C6 (as stated): at a base case the five engines return (None, value()) when the
\* node's current_player is the maximizing player and (None, -value()) otherwise.
C6_BaseCaseRawForMaximizing ==
    (called \in BaseCaseEngines /\ is_base_case(node, depth))
        => /\ result.move = None
           /\ result.score = IF maximizing_player = node.current_player
                             THEN value(node) ELSE neg(value(node))

\* C6 (amended): at a base case the five engines return (None, -value()) when the
\* node's current_player is the maximizing player and (None, value()) otherwise.
C6_BaseCaseNegatedForMaximizing ==
    (called \in BaseCaseEngines /\ is_base_case(node, depth))
        => /\ result.move = None
           /\ result.score = IF maximizing_player = node.current_player
                             THEN neg(value(node)) ELSE value(node)

\* C6 witness: alpha_beta_par on a position without moves and of value 1, asked
\* for the player to move, answered (None, -1).
C6_Witness ==
    /\ called = "alpha_beta_par" /\ depth > 0 /\ ~has_moves(node)
    /\ value(node) = 1 /\ maximizing_player = node.current_player
    /\ result.move = None /\ result.score = -1

\* C7: minmax_iter and minmax_fonc return the score minmax_par returns.
C7_SequentialScoreIsParallelScore ==
    called \in {"minmax_iter", "minmax_fonc"}
        => \A r \in minmax_par(node, depth, maximizing_player) : result.score = r.score

\* C8 (as stated): alpha_beta started with the full window is invoked on a subset
\* of the nodes minmax_fonc is invoked on, a proper subset whenever a break is taken.
C8_FewerNodesOnEveryBreak ==
    (called = "alpha_beta" /\ window = FullWindow)
        => LET mm == minmax_fonc(node, depth, maximizing_player).visited
           IN /\ result.visited \subseteq mm
              /\ result.breaks > 0 => result.visited # mm

\* C8 (amended): ... a proper subset whenever a break is taken that leaves a child
\* unvisited.
C8_FewerNodesOnEverySkippingBreak ==
    (called = "alpha_beta" /\ window = FullWindow)
        => LET mm == minmax_fonc(node, depth, maximizing_player).visited
           IN /\ result.visited \subseteq mm
              /\ result.skipped > 0 => result.visited # mm

\* C8 witness: a run with a break that cuts a child off, and one fewer node visited.
C8_Witness ==
    /\ called = "alpha_beta" /\ window = FullWindow
    /\ result.breaks > 0 /\ result.skipped = 1
    /\ Cardinality(minmax_fonc(node, depth, maximizing_player).visited)
         = Cardinality(result.visited) + 1

\* C9: whatever the split of the children into runs sharing a local bound and
\* whatever the grouping of the reduction, minmax_par and alpha_beta_par return
\* the same score.
C9_ParallelScoreIsScheduleIndependent ==
    /\ called = "minmax_par"
         => \A r \in minmax_par(node, depth, maximizing_player) : r.score = result.score
    /\ called = "alpha_beta_par"
         => \A r \in alpha_beta_par(node, depth, window.alpha, window.beta, maximizing_player) :
               r.score = result.score

\* C9 witness: alpha_beta_par two plies deep on a node with three children, so that
\* both the runs and the grouping of the reduction can differ.
C9_Witness ==
    /\ called = "alpha_beta_par" /\ depth >= 1
    /\ Len(movements(node)) = 3
    /\ result.move # None

child_score(m) == minmax_fonc(play(node, m), depth - 1, maximizing_player).score
tied == {m \in DOMAIN movements(node) : child_score(m) = result.score}
first_of(S) == CHOOSE m \in S : \A o \in S : m <= o
last_of(S) == CHOOSE m \in S : \A o \in S : m >= o

\* C10 (as stated): minmax_fonc returns the first, in movements() order, of the
\* children that share the selected score, at maximizing and at minimizing nodes.
C10_FirstOfTheTied ==
    (called = "minmax_fonc" /\ ~is_base_case(node, depth))
        => result.move = movements(node)[first_of(tied)]

\* C10 (amended): minmax_fonc returns the last of the tied children at a
\* maximizing node (max_by_key) and the first at a minimizing node (min_by_key).
C10_LastOfTheTiedWhenMaximizing ==
    (called = "minmax_fonc" /\ ~is_base_case(node, depth))
        => result.move = movements(node)[IF node.current_player = maximizing_player
                                         THEN last_of(tied) ELSE first_of(tied)]

\* C10 witness: a maximizing node with two children of equal score; the second is
\* returned.
C10_Witness ==
    /\ called = "minmax_fonc" /\ ~is_base_case(node, depth)
    /\ node.current_player = maximizing_player
    /\ Cardinality(tied) >= 2
    /\ result.move = movements(node)[last_of(tied)]
    /\ result.move # movements(node)[first_of(tied)]

====
